---------------------------- MODULE Spec2Model ----------------------------
(***************************************************************************)
(* State-machine model of the simulation core of rust-snake-wasm:          *)
(*   - the game driver Game::create (src/src/system/traits.rs),            *)
(*   - the spatial grid Grid (src/src/data.rs),                            *)
(*   - the coordinate arithmetic and the two bounding policies             *)
(*     (src/src/data.rs).                                                  *)
(* Three specifications share the variables: Spec (the driver), SpecGrid   *)
(* (the grid) and SpecCoord (the pure coordinate functions).               *)
(***************************************************************************)
EXTENDS Integers, Sequences, FiniteSets, TLC

VARIABLES
    \* ---- driver (Game::create) ----
    model,      \* which Model implementation the Game owns
    pc,         \* position of the generator's control flow
    phase,      \* "init": inside the for loop over initialize(); "steady": inside the step loop
    cell,       \* the shared command cell (Rc<Cell<T>>), a key code
    cmd,        \* `update`, the Option<Cmd> read from the cell for the coming step
    stepArg,    \* history: the argument of the step() call just made
    pending,    \* the update u bound by `for u in iter` / `if let Ok(u)`
    renderer,   \* the live renderer (its update and remaining work)
    gstate,     \* the GeneratorState returned by the last RenderGen::resume
    initLeft,   \* how many more initial updates the State iterator may still produce
    nInit,      \* initial updates produced so far in this cycle
    nStep,      \* step() calls that returned Ok in this cycle
    log,        \* history: the calls the driver made in the current cycle
    lastWrite,  \* history: the value most recently written to the cell by the host
    since,      \* history: the last two values the host wrote since the step before the last
    \* ---- grid ----
    grid,       \* the Grid value (width, height, blocks)
    gpanic,     \* TRUE once an operation on the grid has panicked
    gop,        \* history: the last grid operation, its arguments, result and the grid before it
    \* ---- coordinate functions ----
    cin,        \* the inputs of the pure functions
    cout        \* the result of the function applied last

drvVars == <<model, pc, phase, cell, cmd, stepArg, pending, renderer, gstate, initLeft,
             nInit, nStep, log, lastWrite, since>>
gridVars == <<grid, gpanic, gop>>
coordVars == <<cin, cout>>
vars == <<drvVars, gridVars, coordVars>>

(***************************************************************************)
(* Bounds of the model.                                                    *)
(***************************************************************************)
MaxInit == 2    \* most initial updates an initialize() produces
MaxSteps == 2   \* most Ok steps of one cycle
MaxWork == 2    \* most "more work remains" answers of one renderer

(***************************************************************************)
(* Key codes and their conversion to a command (data.rs).                  *)
(***************************************************************************)
\* Key::none(): the key code of "no key".
KeyNone == 0

\* The values the host writes to the cell: no key, a non-direction key, two arrows.
KeyCodes == {KeyNone, 13, 37, 40}

\* From<Key> for Option<Direction>.
KeyInto(code) ==
    CASE code = 37 -> "West"
      [] code = 38 -> "North"
      [] code = 39 -> "East"
      [] code = 40 -> "South"
      [] OTHER -> "None"

\* T::default(), the value Game::create puts in the cell.
CellDefault == KeyNone

(***************************************************************************)
(* The driver: Game::create (traits.rs).                                   *)
(***************************************************************************)
\* The Model implementations a Game is built with: Empty, and an arbitrary
\* implementation of the trait (any initial updates, any step results).
Models == {"Empty", "Any"}

NoUpdate == [src |-> "none", n |-> 0]
NoRenderer == [u |-> NoUpdate, work |-> 0, done |-> TRUE]

\* One entry of the history: the call e and the update u it concerns.
CallU(e, u) == [e |-> e, u |-> u]
Call(e) == CallU(e, NoUpdate)

\* The generator is suspended (control is with the host) before its first
\* resume and at every yield.
Suspended == pc \in {"start", "yielded"}

\* The host's input path overwrites the cell; it runs only while the
\* generator is suspended (one cooperative thread).
HostWrite(v) ==
    /\ Suspended
    /\ cell' = v
    /\ lastWrite' = v
    /\ since' = IF Len(since) < 2 THEN Append(since, v) ELSE <<since[2], v>>
    /\ UNCHANGED <<model, pc, phase, cmd, stepArg, pending, renderer, gstate,
                   initLeft, nInit, nStep, log>>
    /\ UNCHANGED <<gridVars, coordVars>>

\* The host resumes the generator: from its start, or after a yield back
\* into the yield_from loop.
HostResume ==
    /\ Suspended
    /\ pc' = IF pc = "start" THEN "init" ELSE "render"
    /\ UNCHANGED <<model, phase, cell, cmd, stepArg, pending, renderer, gstate,
                   initLeft, nInit, nStep, log, lastWrite, since>>
    /\ UNCHANGED <<gridVars, coordVars>>

\* Empty::initialize returns the empty iterator; another model any finite one.
InitialCount(m) == IF m = "Empty" THEN {0} ELSE 0..MaxInit

\* let iter = this.model.initialize();
Initialize ==
    /\ pc = "init"
    /\ \E n \in InitialCount(model) : initLeft' = n
    /\ nInit' = 0
    /\ nStep' = 0
    /\ phase' = "init"
    /\ log' = <<Call("initialize")>>
    /\ pc' = "iter"
    /\ UNCHANGED <<model, cell, cmd, stepArg, pending, renderer, gstate, lastWrite,
                   since>>
    /\ UNCHANGED <<gridVars, coordVars>>

\* for u in iter: the iterator yields the next initial update, or ends and
\* control falls into the step loop.
IterNext ==
    /\ pc = "iter"
    /\ IF initLeft > 0
       THEN /\ pending' = [src |-> "init", n |-> nInit + 1]
            /\ nInit' = nInit + 1
            /\ initLeft' = initLeft - 1
            /\ log' = Append(log, CallU("next", pending'))
            /\ pc' = "create"
            /\ phase' = phase
       ELSE /\ pc' = "poll"
            /\ phase' = "steady"
            /\ UNCHANGED <<pending, nInit, initLeft, log>>
    /\ UNCHANGED <<model, cell, cmd, stepArg, renderer, gstate, nStep, lastWrite,
                   since>>
    /\ UNCHANGED <<gridVars, coordVars>>

\* let renderer = R::create(u, &mut this.env); the renderer decides how many
\* times it will answer "more work remains".
Create ==
    /\ pc = "create"
    /\ \E w \in 0..MaxWork : renderer' = [u |-> pending, work |-> w, done |-> FALSE]
    /\ pending' = NoUpdate
    /\ stepArg' = ""
    /\ since' = <<>>
    /\ log' = Append(log, CallU("create", pending))
    /\ pc' = "render"
    /\ UNCHANGED <<model, phase, cell, cmd, gstate, initLeft, nInit, nStep,
                   lastWrite>>
    /\ UNCHANGED <<gridVars, coordVars>>

\* Render::render: Some(()) while work remains, None when done.
RenderResult(r) == IF r.work > 0 THEN "Some" ELSE "None"

\* Mutant of ResumeState: the two arms of the match swapped.
ResumeStateSwapped(answer) == IF answer = "Some" THEN "Complete" ELSE "Yielded"

\* RenderGen::resume: the match on the renderer's answer.
ResumeState(answer) == IF answer = "Some" THEN "Yielded" ELSE "Complete"

\* RenderGen::resume: one render() call on the renderer.
Resume ==
    /\ pc = "render"
    /\ LET answer == RenderResult(renderer) IN
        /\ renderer' = IF answer = "Some"
                       THEN [renderer EXCEPT !.work = @ - 1]
                       ELSE [renderer EXCEPT !.done = TRUE]
        /\ gstate' = ResumeState(answer)
        /\ log' = Append(log, CallU(IF answer = "Some" THEN "render_some"
                                    ELSE "render_none", renderer.u))
    /\ pc' = "match"
    /\ UNCHANGED <<model, phase, cell, cmd, stepArg, pending, initLeft, nInit,
                   nStep, lastWrite, since>>
    /\ UNCHANGED <<gridVars, coordVars>>

\* Where control continues when yield_from! ends: the next iteration of the
\* loop the macro call stands in.
AfterRender == IF phase = "init" THEN "iter" ELSE "poll"

\* yield_from!(gen): Yielded suspends the driver and resumes gen again on the
\* next host resume; Complete ends the loop over gen.
YieldFrom ==
    /\ pc = "match"
    /\ IF gstate = "Yielded"
       THEN /\ pc' = "yielded"
            /\ log' = Append(log, CallU("yield", renderer.u))
            /\ renderer' = renderer
       ELSE /\ pc' = AfterRender
            /\ log' = log
            /\ renderer' = NoRenderer
    /\ UNCHANGED <<model, phase, cell, cmd, stepArg, pending, gstate, initLeft,
                   nInit, nStep, lastWrite, since>>
    /\ UNCHANGED <<gridVars, coordVars>>

\* Mutant of Poll: the driver consumes the command (Cell::take).
PollTakes ==
    /\ pc = "poll"
    /\ cmd' = KeyInto(cell)
    /\ cell' = CellDefault
    /\ log' = Append(log, Call("poll"))
    /\ pc' = "step"
    /\ UNCHANGED <<model, phase, stepArg, pending, renderer, gstate, initLeft,
                   nInit, nStep, lastWrite, since>>
    /\ UNCHANGED <<gridVars, coordVars>>

\* let update = cell.get().into();
Poll ==
    /\ pc = "poll"
    /\ cmd' = KeyInto(cell)
    /\ cell' = cell
    /\ log' = Append(log, Call("poll"))
    /\ pc' = "step"
    /\ UNCHANGED <<model, phase, stepArg, pending, renderer, gstate, initLeft,
                   nInit, nStep, lastWrite, since>>
    /\ UNCHANGED <<gridVars, coordVars>>

\* this.model.step(update) returns Ok(u): if let Ok(u) = u { ... }
StepOk ==
    /\ pc = "step"
    /\ model = "Any"
    /\ nStep < MaxSteps
    /\ pending' = [src |-> "step", n |-> nStep + 1]
    /\ nStep' = nStep + 1
    /\ log' = Append(log, CallU("step_ok", pending'))
    /\ stepArg' = cmd
    /\ cmd' = "None"
    /\ pc' = "create"
    /\ UNCHANGED <<model, phase, cell, renderer, gstate, initLeft, nInit, lastWrite,
                   since>>
    /\ UNCHANGED <<gridVars, coordVars>>

\* Mutant of StepErr: the break leaves both loops' bodies without tear_down.
StepErrSkipsTearDown ==
    /\ pc = "step"
    /\ log' = Append(log, Call("step_err"))
    /\ stepArg' = cmd
    /\ cmd' = "None"
    /\ pc' = "init"
    /\ UNCHANGED <<model, phase, cell, pending, renderer, gstate, initLeft, nInit,
                   nStep, lastWrite, since>>
    /\ UNCHANGED <<gridVars, coordVars>>

\* this.model.step(update) returns Err (Empty::step always does): break.
StepErr ==
    /\ pc = "step"
    /\ log' = Append(log, Call("step_err"))
    /\ stepArg' = cmd
    /\ cmd' = "None"
    /\ pc' = "teardown"
    /\ UNCHANGED <<model, phase, cell, pending, renderer, gstate, initLeft, nInit,
                   nStep, lastWrite, since>>
    /\ UNCHANGED <<gridVars, coordVars>>

\* Mutant of LoopBack: the generator returns after tear_down.
LoopBackReturns == "complete"

\* The outer `loop`: after tear_down control is back at initialize.
LoopBack == "init"

\* this.model.tear_down(); then the outer loop starts over.
TearDown ==
    /\ pc = "teardown"
    /\ log' = Append(log, Call("tear_down"))
    /\ stepArg' = ""
    /\ since' = <<>>
    /\ pc' = LoopBack
    /\ UNCHANGED <<model, phase, cell, cmd, pending, renderer, gstate, initLeft,
                   nInit, nStep, lastWrite>>
    /\ UNCHANGED <<gridVars, coordVars>>

\* No grid yet: the value of grid before a constructor has run.
NoGrid == [width |-> 0, height |-> 0, len |-> 0, cells |-> <<>>]
NoCoord == [x |-> 0, y |-> 0]
NoOp == [op |-> "new", c |-> NoCoord, s |-> "", res |-> "", entries |-> <<>>,
         writes |-> 0]
NoIn == [t |-> NoCoord, w |-> 1, h |-> 1, d |-> "North", b |-> NoCoord]
NoOut == [f |-> "none"]

\* The grid variables before any grid is built.
GridNew == grid = NoGrid /\ gpanic = FALSE /\ gop = NoOp

\* The coordinate variables before any function is applied.
CoordNew == cin = NoIn /\ cout = NoOut

\* Game::create: the cell holds T::default(), the generator has not run.
DriverNew ==
    /\ pc = "start"
    /\ phase = "init"
    /\ cell = CellDefault
    /\ cmd = "None"
    /\ stepArg = ""
    /\ pending = NoUpdate
    /\ renderer = NoRenderer
    /\ gstate = "Complete"
    /\ initLeft = 0
    /\ nInit = 0
    /\ nStep = 0
    /\ log = <<>>
    /\ lastWrite = CellDefault
    /\ since = <<>>

Init ==
    /\ model \in Models
    /\ DriverNew
    /\ GridNew
    /\ CoordNew

Next ==
    \/ \E v \in KeyCodes : HostWrite(v)
    \/ HostResume
    \/ Initialize
    \/ IterNext
    \/ Create
    \/ Resume
    \/ YieldFrom
    \/ Poll
    \/ StepOk
    \/ StepErr
    \/ TearDown

Spec == Init /\ [][Next]_vars

\* The steps the generator takes by itself between two suspension points.
DriverStep ==
    \/ Initialize
    \/ IterNext
    \/ Create
    \/ Resume
    \/ YieldFrom
    \/ Poll
    \/ StepOk
    \/ StepErr
    \/ TearDown

\* The driver with its calls returning: once resumed, the generator keeps
\* running until it suspends; the host is free to write and to resume or not.
SpecLive == Init /\ [][Next]_vars /\ WF_vars(DriverStep)

(***************************************************************************)
(* Properties of the driver, stated over the history of the current cycle. *)
(***************************************************************************)
IsStep(e) == e \in {"step_ok", "step_err"}
IsRender(e) == e \in {"render_some", "render_none"}
IsProduce(e) == e \in {"next", "step_ok"}

\* The updates of the entries of l that satisfy Test, in order.
UpdatesOf(l, Test(_)) ==
    LET sel == SelectSeq(l, LAMBDA x : Test(x.e))
    IN  [i \in DOMAIN sel |-> sel[i].u]

\* The updates produced / rendered to completion before entry i.
ProducedBefore(i) == UpdatesOf(SubSeq(log, 1, i - 1), IsProduce)
CompletedBefore(i) == UpdatesOf(SubSeq(log, 1, i - 1), LAMBDA e : e = "render_none")

\* A cycle has run to its end: tear_down is done (or was skipped) and the
\* driver is about to call initialize again.
CycleEnded == pc = "init" /\ log # <<>>

\* C1: in every cycle initialize() is called once, first; every initial
\* update is rendered to completion, in the order produced, before the first
\* step(); every update a step() returns is rendered to completion before
\* the next step(); a terminating step is followed by tear_down(), and
\* tear_down() by the initialize() of the next cycle; the generator never
\* completes.
C1_CycleOrder ==
    /\ pc # "complete"
    /\ \A i \in DOMAIN log :
        /\ (log[i].e = "initialize") <=> (i = 1)
        /\ IsStep(log[i].e) => ProducedBefore(i) = CompletedBefore(i)
        /\ log[i].e = "next" =>
              /\ ProducedBefore(i) = CompletedBefore(i)
              /\ \A j \in 1..(i - 1) : ~IsStep(log[j].e)
        /\ log[i].e = "step_err" =>
              \/ i = Len(log) /\ pc = "teardown"
              \/ i + 1 = Len(log) /\ log[i + 1].e = "tear_down"
        /\ log[i].e = "tear_down" => i = Len(log) /\ pc = "init"

\* C1 witness: a cycle has ended that rendered two initial updates and an
\* update of a step, with suspensions.
C1_Witness ==
    /\ CycleEnded
    /\ log[Len(log)].e = "tear_down"
    /\ Cardinality({i \in DOMAIN log : log[i].e = "next"}) = 2
    /\ \E i \in DOMAIN log : log[i].e = "step_ok"
    /\ \E i \in DOMAIN log : log[i].e = "yield"

\* C2: tear_down() is called exactly once per cycle, directly after the
\* step() that signalled termination; nothing but tear_down() follows that
\* step within the cycle; with the model Empty a cycle is initialize, one
\* poll, the terminating step, tear_down: no renderer at all.
C2_TearDownOnce ==
    /\ Cardinality({i \in DOMAIN log : log[i].e = "tear_down"}) <= 1
    /\ CycleEnded => Cardinality({i \in DOMAIN log : log[i].e = "tear_down"}) = 1
    /\ pc = "teardown" => log[Len(log)].e = "step_err"
    /\ \A i \in DOMAIN log :
        /\ log[i].e = "tear_down" => i > 1 /\ log[i - 1].e = "step_err"
        /\ log[i].e = "step_err" =>
              \A j \in (i + 1)..Len(log) : log[j].e = "tear_down"
    /\ (model = "Empty" /\ CycleEnded) =>
          [i \in DOMAIN log |-> log[i].e] =
              <<"initialize", "poll", "step_err", "tear_down">>

\* C2 witness: a cycle of the model Empty has ended.
C2_Witness ==
    /\ model = "Empty"
    /\ CycleEnded
    /\ log[Len(log)].e = "tear_down"

\* C3: the driver never changes the cell; the command handed to step() is
\* the conversion of the value the host wrote last (the default if it wrote
\* none); each step() is directly preceded by its one read of the cell.
C3_LastWriteWins ==
    /\ cell = lastWrite
    /\ pc = "step" => cmd = KeyInto(lastWrite) /\ log[Len(log)].e = "poll"
    /\ stepArg # "" => stepArg = KeyInto(lastWrite) /\ IsStep(log[Len(log)].e)
    /\ (stepArg # "" /\ since # <<>>) => stepArg = KeyInto(since[Len(since)])
    /\ (log # <<>> /\ IsStep(log[Len(log)].e)) => stepArg = KeyInto(lastWrite)
    /\ pc = "step" => ~Suspended
    /\ \A i \in DOMAIN log :
        /\ IsStep(log[i].e) => i > 1 /\ log[i - 1].e = "poll"
        /\ log[i].e = "poll" => i = Len(log) \/ IsStep(log[i + 1].e)

\* C3 witness: a second step() of a cycle has just been called with the
\* command South, after the host wrote West and overwrote it with South.
C3_Witness ==
    /\ log # <<>>
    /\ IsStep(log[Len(log)].e)
    /\ stepArg = "South"
    /\ Len(since) = 2
    /\ KeyInto(since[1]) = "West"
    /\ \E i \in 1..(Len(log) - 1) : log[i].e = "step_ok"

\* C4: one Render::create per update, directly after the update is
\* produced; every render() answering "more work remains" is followed by
\* exactly one suspension and then by another render() on the same
\* renderer; after "done" that renderer is never rendered again; while a
\* renderer has not reported "done" the driver makes no other call.
C4_RenderToCompletion ==
    \A i \in DOMAIN log :
        /\ log[i].e = "create" =>
              /\ i > 1 /\ IsProduce(log[i - 1].e) /\ log[i - 1].u = log[i].u
              /\ \A j \in DOMAIN log :
                    (log[j].e = "create" /\ log[j].u = log[i].u) => j = i
        /\ IsProduce(log[i].e) =>
              \/ i = Len(log) /\ pc = "create"
              \/ i < Len(log) /\ log[i + 1].e = "create" /\ log[i + 1].u = log[i].u
        /\ log[i].e = "render_some" =>
              \/ i = Len(log) /\ pc = "match"
              \/ i < Len(log) /\ log[i + 1].e = "yield" /\ log[i + 1].u = log[i].u
        /\ log[i].e = "yield" =>
              /\ log[i - 1].e = "render_some"
              /\ \/ i = Len(log) /\ pc \in {"yielded", "render"}
                 \/ i < Len(log) /\ IsRender(log[i + 1].e) /\ log[i + 1].u = log[i].u
        /\ IsRender(log[i].e) =>
              /\ log[i - 1].e \in {"create", "yield"}
              /\ log[i - 1].u = log[i].u
        /\ log[i].e = "render_none" =>
              \A j \in (i + 1)..Len(log) :
                  ~(IsRender(log[j].e) /\ log[j].u = log[i].u)
        /\ (i > 1 /\ ~IsRender(log[i].e) /\ log[i].e # "yield") =>
              log[i - 1].e \notin {"create", "render_some", "yield"}

\* C4 witness: a renderer answered "more work remains" twice, then "done",
\* and the driver has gone on to its next call.
C4_Witness ==
    \E i \in DOMAIN log :
        /\ i >= 6 /\ i < Len(log)
        /\ log[i].e = "render_none"
        /\ log[i - 1].e = "yield" /\ log[i - 2].e = "render_some"
        /\ log[i - 3].e = "yield" /\ log[i - 4].e = "render_some"
        /\ log[i - 5].e = "create"

(***************************************************************************)
(* Coordinates and the bit-interleaved index (data.rs).                    *)
(***************************************************************************)
\* SmallNat = u16: the width in bits of a coordinate component.
SmallNatBits == 16
SmallNatMod == 2 ^ SmallNatBits
SmallNatMax == SmallNatMod - 1

MaxOf(a, b) == IF a >= b THEN a ELSE b

\* Coordinate { x, y }
Coord(x, y) == [x |-> x, y |-> y]

\* The bits of v moved to the even positions (bit i to bit 2i).
RECURSIVE Spread(_)
Spread(v) == IF v = 0 THEN 0 ELSE (v % 2) + 4 * Spread(v \div 2)

\* The even-position bits of n gathered (bit 2i to bit i).
RECURSIVE Compact(_)
Compact(n) == IF n = 0 THEN 0 ELSE (n % 2) + 2 * Compact(n \div 4)

\* interleave_morton(x, y): x in the odd bits, y in the even bits.
InterleaveMorton(x, y) == 2 * Spread(x) + Spread(y)

\* Coordinate::encode_usize, as a number: used for the slots of a grid, whose
\* coordinates keep it below 2^31.
EncodeUsize(c) == InterleaveMorton(c.x, c.y)

\* Half the bits of a component: the low byte and the high byte.
HalfMod == 2 ^ (SmallNatBits \div 2)

\* Mutant of EncodeLimbs: the interleaving loses bit 1 of both components.
EncodeLimbsDropsBit(c) ==
    <<InterleaveMorton(c.x \div HalfMod, c.y \div HalfMod),
      InterleaveMorton((c.x % HalfMod) - ((c.x \div 2) % 2) * 2,
                       (c.y % HalfMod) - ((c.y \div 2) % 2) * 2)>>

\* Coordinate::encode_usize for any 16-bit coordinate, as the two 16-bit
\* limbs <<high, low>> of the 32-bit result: interleaving the high bytes gives
\* the high limb, interleaving the low bytes the low limb.
EncodeLimbs(c) ==
    <<InterleaveMorton(c.x \div HalfMod, c.y \div HalfMod),
      InterleaveMorton(c.x % HalfMod, c.y % HalfMod)>>

\* Coordinate::decode_usize: deinterleave_morton(n as u32); every index of the
\* model is below 2^31, so the cast changes nothing.
DecodeUsize(n) == Coord(Compact(n \div 2), Compact(n))

(***************************************************************************)
(* The grid (data.rs).  The Vec `blocks` is kept as its length `len` and   *)
(* the finite map `cells` of the slots that do not hold OutOfBound: slot i *)
(* holds cells[i] if i is in DOMAIN cells, and OutOfBound otherwise.       *)
(***************************************************************************)
MaxDim == 3       \* largest width and height given to Grid::empty
MaxCoord == 1     \* largest coordinate component of an entry a grid is collected from
MaxEntries == 2   \* longest sequence of entries a grid is collected from
MaxWrites == 1    \* most indexed writes applied to one grid

Direction == {"North", "South", "East", "West"}

\* Block::Snake(d)
Snake(d) ==
    CASE d = "North" -> "SnakeNorth"
      [] d = "South" -> "SnakeSouth"
      [] d = "East" -> "SnakeEast"
      [] d = "West" -> "SnakeWest"

\* enum Block
Block == {"Empty", "Food", "OutOfBound"} \cup {Snake(d) : d \in Direction}

EmptyCells == [i \in {} |-> "Empty"]

\* blocks[i]
BlockAt(g, i) == IF i \in DOMAIN g.cells THEN g.cells[i] ELSE "OutOfBound"

\* blocks[i] = b
PutCell(cells, i, b) ==
    IF b = "OutOfBound"
    THEN [j \in DOMAIN cells \ {i} |-> cells[j]]
    ELSE [j \in DOMAIN cells \cup {i} |-> IF j = i THEN b ELSE cells[j]]

\* The slots of the coordinates iproduct!(0..width, 0..height).
RectSlots(width, height) ==
    {EncodeUsize(Coord(x, y)) : x \in 0..(width - 1), y \in 0..(height - 1)}

\* Grid::empty
GridEmpty(w, h) ==
    LET width == MaxOf(1, w)
        height == MaxOf(1, h)
        max_coord == Coord(width - 1, height - 1)
        size_requirement == EncodeUsize(max_coord) + 1
    IN  [width |-> width, height |-> height, len |-> size_requirement,
         cells |-> [i \in RectSlots(width, height) |-> "Empty"]]

\* index.x < self.width && index.y < self.height
InRect(g, c) == c.x < g.width /\ c.y < g.height

\* Index<Coordinate> for Grid: the block read, or "panic" if the Vec index
\* is out of range.
IndexGet(g, c) ==
    IF InRect(g, c)
    THEN IF EncodeUsize(c) < g.len THEN BlockAt(g, EncodeUsize(c)) ELSE "panic"
    ELSE "OutOfBound"

\* Mutant of IndexSet: the write indexes the Vec without the rectangle test.
IndexSetUnchecked(g, c, s) ==
    IF EncodeUsize(c) < g.len
    THEN [ok |-> TRUE, grid |-> [g EXCEPT !.cells = PutCell(@, EncodeUsize(c), s)]]
    ELSE [ok |-> FALSE, grid |-> g]

\* IndexMut<Coordinate> for Grid followed by the assignment of s: the grid
\* after it, or a panic.
IndexSet(g, c, s) ==
    IF InRect(g, c) /\ EncodeUsize(c) < g.len
    THEN [ok |-> TRUE, grid |-> [g EXCEPT !.cells = PutCell(@, EncodeUsize(c), s)]]
    ELSE [ok |-> FALSE, grid |-> g]

\* Grid::clear: self[coord] = Block::Empty for every coordinate of
\* iter_coordinates().
GridClear(g) ==
    LET R == RectSlots(g.width, g.height)
    IN  [g EXCEPT !.cells = [i \in DOMAIN g.cells \cup R |->
                                IF i \in R THEN "Empty" ELSE g.cells[i]]]

\* The loop of from_iter over the entries: the running maxima, the length of
\* blocks (all Empty but the slots written), and the slots written.
RECURSIVE FromIterLoop(_, _)
FromIterLoop(entries, st) ==
    IF entries = <<>> THEN st
    ELSE LET coord == Head(entries).c
             block == Head(entries).b
             x_max == MaxOf(st.x_max, coord.x)
             y_max == MaxOf(st.y_max, coord.y)
             index == EncodeUsize(Coord(x_max, y_max))
         IN  FromIterLoop(Tail(entries),
                 [x_max |-> x_max, y_max |-> y_max,
                  len |-> MaxOf(st.len, index + 1),
                  written |-> [j \in DOMAIN st.written \cup {EncodeUsize(coord)} |->
                                 IF j = EncodeUsize(coord) THEN block
                                 ELSE st.written[j]]])

\* from_iter up to its last statement: the loop, then the pass that marks
\* OutOfBound every slot decoding to x > x_max or y > y_max.
FromIterBlocks(entries) ==
    LET st == FromIterLoop(entries,
                  [x_max |-> 0, y_max |-> 0, len |-> 1, written |-> EmptyCells])
        R == RectSlots(st.x_max + 1, st.y_max + 1)
        kept == {i \in R : ~(i \in DOMAIN st.written /\ st.written[i] = "OutOfBound")}
    IN  [x_max |-> st.x_max, y_max |-> st.y_max, len |-> st.len,
         cells |-> [i \in kept |-> IF i \in DOMAIN st.written THEN st.written[i]
                                   ELSE "Empty"]]

\* let width = x_max + 1; let height = y_max + 1; in u16 arithmetic.
FromIterOverflows(entries) ==
    LET b == FromIterBlocks(entries)
    IN  b.x_max + 1 > SmallNatMax \/ b.y_max + 1 > SmallNatMax

\* FromIterator<(Coordinate, Block)> for Grid, when the additions wrap (or
\* do not overflow).
FromIter(entries) ==
    LET b == FromIterBlocks(entries)
    IN  [width |-> (b.x_max + 1) % SmallNatMod,
         height |-> (b.y_max + 1) % SmallNatMod,
         len |-> b.len, cells |-> b.cells]

(***************************************************************************)
(* The grid as a state machine: one constructor, then clear, indexed       *)
(* writes and indexed reads.                                               *)
(***************************************************************************)
\* The coordinates of the entries a grid is collected from.
EntryCoords == {Coord(x, y) : x \in 0..MaxCoord, y \in 0..MaxCoord}

\* The cell states of those entries.
EntryBlocks == {"Food", "OutOfBound"}

RECURSIVE SeqsUpTo(_, _)
SeqsUpTo(S, n) ==
    IF n = 0 THEN {<<>>}
    ELSE LET shorter == SeqsUpTo(S, n - 1)
         IN  shorter \cup {Append(q, e) : q \in {r \in shorter : Len(r) = n - 1}, e \in S}

\* The entry sequences tried: every short sequence over the small
\* coordinates, and one entry at the largest representable y.
EntrySeqs ==
    SeqsUpTo([c : EntryCoords, b : EntryBlocks], MaxEntries)
        \cup {<<[c |-> Coord(0, SmallNatMax), b |-> "Food"]>>}

\* The coordinates read and written: inside and outside every grid built.
IndexCoords ==
    {Coord(0, 0), Coord(1, 1), Coord(MaxDim, 0), Coord(0, MaxDim),
     Coord(0, SmallNatMax)}

\* The cell states written.
WriteBlocks == {"Food", Snake("West"), "OutOfBound"}

Op(op, c, s, res, entries, writes) ==
    [op |-> op, c |-> c, s |-> s, res |-> res, entries |-> entries, writes |-> writes]

\* let grid = Grid::empty(w, h);
NewEmpty(w, h) ==
    /\ gop.op = "new" /\ ~gpanic
    /\ grid' = GridEmpty(w, h)
    /\ gpanic' = FALSE
    /\ gop' = Op("empty", Coord(w, h), "", "", <<>>, 0)
    /\ UNCHANGED <<drvVars, coordVars>>

\* let grid: Grid = entries.collect(); where x_max + 1 or y_max + 1 does not
\* fit a u16 the addition panics (overflow checks on) or wraps (off).
Collect(entries) ==
    /\ gop.op = "new" /\ ~gpanic
    /\ gop' = Op("from_iter", NoCoord, "", "", entries, 0)
    /\ IF FromIterOverflows(entries)
       THEN \/ gpanic' = TRUE /\ grid' = grid
            \/ gpanic' = FALSE /\ grid' = FromIter(entries)
       ELSE gpanic' = FALSE /\ grid' = FromIter(entries)
    /\ UNCHANGED <<drvVars, coordVars>>

\* grid.clear();
Clear ==
    /\ gop.op # "new" /\ ~gpanic
    /\ grid' = GridClear(grid)
    /\ gpanic' = FALSE
    /\ gop' = Op("clear", NoCoord, "", "", <<>>, gop.writes)
    /\ UNCHANGED <<drvVars, coordVars>>

\* grid[c] = s;
Write(c, s) ==
    /\ gop.op # "new" /\ ~gpanic
    /\ gop.writes < MaxWrites
    /\ LET r == IndexSet(grid, c, s) IN
        /\ grid' = r.grid
        /\ gpanic' = ~r.ok
    /\ gop' = Op("write", c, s, "", <<>>, gop.writes + 1)
    /\ UNCHANGED <<drvVars, coordVars>>

\* let res = grid[c];
Read(c) ==
    /\ gop.op # "new" /\ ~gpanic
    /\ LET r == IndexGet(grid, c) IN
        /\ gpanic' = (r = "panic")
        /\ gop' = Op("read", c, "", r, <<>>, gop.writes)
    /\ grid' = grid
    /\ UNCHANGED <<drvVars, coordVars>>

InitGrid ==
    /\ model = "Empty"
    /\ DriverNew
    /\ GridNew
    /\ CoordNew

NextGrid ==
    \/ \E w \in 0..MaxDim, h \in 0..MaxDim : NewEmpty(w, h)
    \/ \E entries \in EntrySeqs : Collect(entries)
    \/ Clear
    \/ \E c \in IndexCoords, s \in WriteBlocks : Write(c, s)
    \/ \E c \in IndexCoords : Read(c)

SpecGrid == InitGrid /\ [][NextGrid]_vars

\* A grid has been built (its constructor did not panic).
Built == gop.op # "new" /\ ~(gop.op = "from_iter" /\ gpanic)

(***************************************************************************)
(* Properties of the grid.                                                 *)
(***************************************************************************)
\* The largest x (y) of the entries, 0 if there is none.
RECURSIVE MaxX(_)
MaxX(entries) == IF entries = <<>> THEN 0 ELSE MaxOf(Head(entries).c.x, MaxX(Tail(entries)))
RECURSIVE MaxY(_)
MaxY(entries) == IF entries = <<>> THEN 0 ELSE MaxOf(Head(entries).c.y, MaxY(Tail(entries)))

\* C5: in every grid built by Grid::empty or collected from entries, and
\* after any clear() and indexed writes of any cell state, a slot of the
\* backing array holds OutOfBound exactly if its decoded coordinate lies
\* outside [0,width) x [0,height).
C5_GridInvariant ==
    Built =>
        \A i \in 0..(grid.len - 1) :
            InRect(grid, DecodeUsize(i)) <=> BlockAt(grid, i) # "OutOfBound"

\* C5 for the grids as constructed, when no OutOfBound is collected and the
\* collected coordinates stay below the largest u16.
C5_AsConstructed ==
    (/\ Built
     /\ gop.op \in {"empty", "from_iter"}
     /\ \A k \in DOMAIN gop.entries :
           /\ gop.entries[k].b # "OutOfBound"
           /\ gop.entries[k].c.y < SmallNatMax) =>
        \A i \in 0..(grid.len - 1) :
            InRect(grid, DecodeUsize(i)) <=> BlockAt(grid, i) # "OutOfBound"

\* The entries are all Food.
AllFood(entries) == \A k \in DOMAIN entries : entries[k].b = "Food"

\* What C9 says of the grid collected from `entries`.
CollectedAsSpecified(entries) ==
    /\ ~gpanic
    /\ grid.width = 1 + MaxX(entries)
    /\ grid.height = 1 + MaxY(entries)
    /\ \A k \in DOMAIN entries : IndexGet(grid, entries[k].c) = "Food"
    /\ Cardinality(DOMAIN grid.cells) = grid.width * grid.height
    /\ \A i \in DOMAIN grid.cells : i < grid.len

\* C9: the grid collected from any sequence of (coordinate, Food) entries
\* has width 1 + max x and height 1 + max y, reads Food at every supplied
\* coordinate, and has width * height slots that are not OutOfBound.
C9_CollectFood ==
    (gop.op = "from_iter" /\ AllFood(gop.entries)) => CollectedAsSpecified(gop.entries)

\* C9 for the entries whose coordinates are all below the largest u16.
C9_CollectFoodBelowMax ==
    (/\ gop.op = "from_iter"
     /\ AllFood(gop.entries)
     /\ MaxX(gop.entries) < SmallNatMax
     /\ MaxY(gop.entries) < SmallNatMax) => CollectedAsSpecified(gop.entries)

\* The step is the indexed write recorded in gop'.
IsWriteStep == gop'.op = "write" /\ gop'.writes = gop.writes + 1

\* C10: a read outside the rectangle returns OutOfBound, does not panic and
\* leaves the grid as it is; a write outside the rectangle panics and leaves
\* every slot as it is; a write inside changes the slot of c only, and c then
\* reads as the state written.
C10_IndexStep ==
    /\ (gop'.op = "read" /\ ~InRect(grid, gop'.c)) =>
          gop'.res = "OutOfBound" /\ ~gpanic' /\ grid' = grid
    /\ (IsWriteStep /\ ~InRect(grid, gop'.c)) => gpanic' /\ grid' = grid
    /\ (IsWriteStep /\ InRect(grid, gop'.c)) =>
          /\ ~gpanic'
          /\ grid'.width = grid.width /\ grid'.height = grid.height
          /\ grid'.len = grid.len
          /\ \A i \in DOMAIN grid.cells \cup DOMAIN grid'.cells :
                i # EncodeUsize(gop'.c) => BlockAt(grid', i) = BlockAt(grid, i)
          /\ IndexGet(grid', gop'.c) = gop'.s

C10_IndexOutside == [][C10_IndexStep]_vars

\* C10 witness: a write at a coordinate outside the rectangle whose slot
\* exists in the backing array has panicked.
C10_Witness ==
    /\ gop.op = "write"
    /\ gpanic
    /\ ~InRect(grid, gop.c)
    /\ EncodeUsize(gop.c) < grid.len

(***************************************************************************)
(* Coordinate arithmetic and the two bounding policies (data.rs), as pure  *)
(* functions applied to inputs drawn in the initial state.                 *)
(***************************************************************************)
MaxSmall == 2     \* the small component values tried are 0..MaxSmall

\* The component values tried: small ones, and those around 2^15 and 2^16.
U16Samples == (0..MaxSmall) \cup {SmallNatMod \div 2, 40000, SmallNatMax}

\* The bounds tried: positive.
BoundSamples == U16Samples \ {0}

\* Direction::opposite
Opposite(d) ==
    CASE d = "North" -> "South"
      [] d = "South" -> "North"
      [] d = "East" -> "West"
      [] d = "West" -> "East"

\* u16::wrapping_add
WrappingAdd(a, b) == (a + b) % SmallNatMod

\* u16::wrapping_sub
WrappingSub(a, b) == (a + SmallNatMod - b) % SmallNatMod

\* Coordinate::move_towards: the UncheckedCoordinate, as its inner coordinate.
MoveTowards(c, dir) ==
    CASE dir = "North" -> Coord(c.x, WrappingSub(c.y, 1))
      [] dir = "South" -> Coord(c.x, WrappingAdd(c.y, 1))
      [] dir = "East" -> Coord(WrappingAdd(c.x, 1), c.y)
      [] dir = "West" -> Coord(WrappingSub(c.x, 1), c.y)

\* Option<Coordinate>
Some(c) == [some |-> TRUE, c |-> c]
None == [some |-> FALSE, c |-> NoCoord]

\* UncheckedCoordinate::bound_inside
BoundInside(t, bound_width, bound_height) ==
    IF t.x < bound_width /\ t.y < bound_height THEN Some(t) ELSE None

\* UncheckedCoordinate::wrap_inside
WrapInside(t, bound_width, bound_height) ==
    Coord(WrappingAdd(t.x, bound_width) % bound_width,
          WrappingAdd(t.y, bound_height) % bound_height)

\* Ord::cmp on integers
Cmp(a, b) == IF a < b THEN "Less" ELSE IF a = b THEN "Equal" ELSE "Greater"

\* PartialOrd for Coordinate: the Ordering, or "None".
PartialCmp(a, b) ==
    LET ox == Cmp(a.x, b.x)
        oy == Cmp(a.y, b.y)
    IN  IF ox = "Equal" THEN oy
        ELSE IF oy = "Equal" THEN ox
        ELSE IF ox = oy THEN ox
        ELSE "None"

\* a.encode_usize().cmp(&b.encode_usize()), limb by limb.
EncodeCmp(a, b) ==
    LET ea == EncodeLimbs(a)
        eb == EncodeLimbs(b)
    IN  IF ea[1] # eb[1] THEN Cmp(ea[1], eb[1]) ELSE Cmp(ea[2], eb[2])

\* The inputs: a tentative coordinate with bounds and a direction, or two
\* coordinates to compare.
CoordInputs ==
    {[t |-> Coord(x, y), w |-> w, h |-> h, d |-> d, b |-> NoCoord] :
        x \in U16Samples, y \in U16Samples, w \in BoundSamples,
        h \in BoundSamples, d \in Direction}
    \cup
    {[t |-> Coord(x, y), w |-> 1, h |-> 1, d |-> "North", b |-> Coord(bx, by)] :
        x \in U16Samples, y \in U16Samples, bx \in U16Samples, by \in U16Samples}

\* Both policies applied to the tentative coordinate.
ApplyPolicies ==
    /\ cout.f = "none"
    /\ cout' = [f |-> "policies",
                bound |-> BoundInside(cin.t, cin.w, cin.h),
                wrap |-> WrapInside(cin.t, cin.w, cin.h)]
    /\ UNCHANGED <<cin, drvVars, gridVars>>

\* From the wrapped coordinate: a move towards d, wrapped, then a move
\* towards the opposite of d, wrapped.
MoveAndBack ==
    /\ cout.f = "none"
    /\ LET orig == WrapInside(cin.t, cin.w, cin.h)
           there == WrapInside(MoveTowards(orig, cin.d), cin.w, cin.h)
           back == WrapInside(MoveTowards(there, Opposite(cin.d)), cin.w, cin.h)
       IN  cout' = [f |-> "opposite", orig |-> orig, there |-> there, back |-> back]
    /\ UNCHANGED <<cin, drvVars, gridVars>>

\* From the wrapped coordinate: moves East, North, West, South, each wrapped.
MoveAround ==
    /\ cout.f = "none"
    /\ LET orig == WrapInside(cin.t, cin.w, cin.h)
           c1 == WrapInside(MoveTowards(orig, "East"), cin.w, cin.h)
           c2 == WrapInside(MoveTowards(c1, "North"), cin.w, cin.h)
           c3 == WrapInside(MoveTowards(c2, "West"), cin.w, cin.h)
           c4 == WrapInside(MoveTowards(c3, "South"), cin.w, cin.h)
       IN  cout' = [f |-> "enws", orig |-> orig, there |-> c2, back |-> c4]
    /\ UNCHANGED <<cin, drvVars, gridVars>>

\* The two coordinates compared, and their encodings compared.
Compare ==
    /\ cout.f = "none"
    /\ cout' = [f |-> "compare",
                partial |-> PartialCmp(cin.t, cin.b),
                encoded |-> EncodeCmp(cin.t, cin.b)]
    /\ UNCHANGED <<cin, drvVars, gridVars>>

\* Grid::empty keeps max(1, width) and max(1, height); width() and height()
\* return them.
GridDims(width, height) == [width |-> MaxOf(1, width), height |-> MaxOf(1, height)]

\* UncheckedCoordinate::inside::<Wrapping>: wrap_inside with the grid's
\* dimensions, converted into an Option.
InsideWrapping(t, g) == Some(WrapInside(t, g.width, g.height))

\* UncheckedCoordinate::inside::<Bounding>: bound_inside with the grid's
\* dimensions.
InsideBounding(t, g) == BoundInside(t, g.width, g.height)

\* The cells of g tried on the edge faced by d: the two ends of that edge.
EdgeCells(g, d) ==
    CASE d = "West" -> {Coord(0, y) : y \in {0, g.height - 1}}
      [] d = "East" -> {Coord(g.width - 1, y) : y \in {0, g.height - 1}}
      [] d = "North" -> {Coord(x, 0) : x \in {0, g.width - 1}}
      [] d = "South" -> {Coord(x, g.height - 1) : x \in {0, g.width - 1}}

\* The cell of g on the edge opposite to the one faced by d, in the row or
\* column of c.
OppositeEdgeCell(g, c, d) ==
    CASE d = "West" -> Coord(g.width - 1, c.y)
      [] d = "East" -> Coord(0, c.y)
      [] d = "North" -> Coord(c.x, g.height - 1)
      [] d = "South" -> Coord(c.x, 0)

\* From a cell on the edge faced by d of a grid of the given size: a move
\* towards d, resolved by each of the two policies.
StepOffEdge ==
    /\ cout.f = "none"
    /\ LET g == GridDims(cin.w, cin.h)
       IN  \E c \in EdgeCells(g, cin.d) :
              cout' = [f |-> "edge", c |-> c,
                       wrap |-> InsideWrapping(MoveTowards(c, cin.d), g),
                       bound |-> InsideBounding(MoveTowards(c, cin.d), g)]
    /\ UNCHANGED <<cin, drvVars, gridVars>>

InitCoord ==
    /\ model = "Empty"
    /\ DriverNew
    /\ GridNew
    /\ cin \in CoordInputs
    /\ cout = NoOut

NextCoord ==
    \/ ApplyPolicies
    \/ MoveAndBack
    \/ MoveAround
    \/ Compare
    \/ StepOffEdge

SpecCoord == InitCoord /\ [][NextCoord]_vars

\* C6: whenever the clip policy succeeds with c, the wrap policy returns c.
C6_ClipAgreesWithWrap ==
    (cout.f = "policies" /\ cout.bound.some) => cout.wrap = cout.bound.c

\* C6 for bounds of at most 2^15, where x + width cannot overflow for x < width.
C6_BoundsToHalf ==
    (/\ cout.f = "policies"
     /\ cout.bound.some
     /\ cin.w <= SmallNatMod \div 2
     /\ cin.h <= SmallNatMod \div 2) => cout.wrap = cout.bound.c

\* C7: from a wrapped coordinate, a move and the opposite move, each
\* wrapped, lead back to it; so do the moves East, North, West, South.
C7_MovesCancel ==
    cout.f \in {"opposite", "enws"} => cout.back = cout.orig

\* C7 for bounds of at most 2^15.
C7_BoundsToHalf ==
    (/\ cout.f \in {"opposite", "enws"}
     /\ cin.w <= SmallNatMod \div 2
     /\ cin.h <= SmallNatMod \div 2) => cout.back = cout.orig

\* a and b differ in strictly opposite directions on the two axes.
OppositeDirections(a, b) ==
    \/ a.x < b.x /\ a.y > b.y
    \/ a.x > b.x /\ a.y < b.y

\* C8: where partial_cmp is defined it equals the comparison of the
\* encodings; it is undefined exactly when the coordinates differ in
\* strictly opposite directions on the two axes.
C8_EncodePreservesOrder ==
    cout.f = "compare" =>
        /\ cout.partial # "None" => cout.partial = cout.encoded
        /\ (cout.partial = "None") <=> OppositeDirections(cin.t, cin.b)

\* C8 witness: two coordinates that differ on both axes in the same
\* direction, the larger with the top bit set, have been compared.
C8_Witness ==
    /\ cout.f = "compare"
    /\ cout.partial = "Less"
    /\ cin.t.x < cin.b.x /\ cin.t.y < cin.b.y
    /\ cin.b.x >= SmallNatMod \div 2

\* C11: from a cell on the edge faced by d of a grid of any size, the move
\* towards d resolved by the wrap policy yields the cell on the opposite
\* edge with the other component unchanged, and resolved by the clip policy
\* yields absence.
C11_StepOffEdge ==
    cout.f = "edge" =>
        /\ cout.wrap = Some(OppositeEdgeCell(GridDims(cin.w, cin.h), cout.c, cin.d))
        /\ cout.bound = None

\* C11 for grids of at most 2^15 by 2^15 cells.
C11_BoundsToHalf ==
    (/\ cout.f = "edge"
     /\ cin.w <= SmallNatMod \div 2
     /\ cin.h <= SmallNatMod \div 2) =>
        /\ cout.wrap = Some(OppositeEdgeCell(GridDims(cin.w, cin.h), cout.c, cin.d))
        /\ cout.bound = None

\* C11: the clip policy yields absence at every edge of a grid of any size.
C11_ClipAbsent == cout.f = "edge" => cout.bound = None

\* C12: the wrap policy returns (x mod width, y mod height), a coordinate of
\* [0,width) x [0,height).
C12_WrapIsModulo ==
    cout.f = "policies" =>
        /\ cout.wrap = Coord(cin.t.x % cin.w, cin.t.y % cin.h)
        /\ cout.wrap.x < cin.w /\ cout.wrap.y < cin.h

\* C12: the wrap policy always returns a coordinate of [0,width) x [0,height).
C12_WrapInRect ==
    cout.f = "policies" =>
        /\ cout.wrap.x \in 0..(cin.w - 1)
        /\ cout.wrap.y \in 0..(cin.h - 1)

\* C12 for tentative coordinates and bounds whose sum stays below 2^16.
C12_WithoutOverflow ==
    (/\ cout.f = "policies"
     /\ cin.t.x + cin.w < SmallNatMod
     /\ cin.t.y + cin.h < SmallNatMod) =>
        cout.wrap = Coord(cin.t.x % cin.w, cin.t.y % cin.h)

\* C13: every time the host resumes the driver, the driver reaches its next
\* suspension point, for every model and every renderer whose calls return.
C13_ResumeReturns == (~Suspended) ~> Suspended

\* C13 for a renderer with work left: the render call in progress leads to a
\* suspension point.
C13_RenderWithWorkSuspends ==
    (pc = "render" /\ renderer # NoRenderer /\ renderer.work > 0) ~> Suspended

=============================================================================
